---- MODULE Spec2Model ----
(***************************************************************************)
(* certvalidator/ocsp_client.py: fetch() and its helpers, as a state       *)
(* machine.  One client issues fetch() calls one after the other against   *)
(* the module-wide cache_manager; the cache outlives the calls.            *)
(***************************************************************************)
EXTENDS Integers, Sequences, FiniteSets, TLC

\* ------------------------------------------------------------------ bounds
MaxEndpoints == 3   \* longest cert.ocsp_urls list
MaxCalls     == 2   \* fetch() calls in one behaviour
MaxNonce     == 2   \* distinct values os.urandom / a responder can produce

\* ------------------------------------------------------------------ values
None == [type |-> "NoneType"]

Nonces == 1 .. MaxNonce
NoNonce == 0                       \* nonce_value of a message without the extension

\* A certificate value: serial number, issuer name, public key, OCSP URLs
\* in the order of the authority information access extension.
Certificate(k) ==
    [type |-> "Certificate", serial_number |-> 1, issuer |-> "CA",
     public_key |-> "key", ocsp_urls |-> [j \in 1 .. k |-> j]]

Certs == { Certificate(k) : k \in 0 .. MaxEndpoints }
NotACert == [type |-> "str"]

\* nonce argument: a bool, or a value of another type
NonceArgs == {[type |-> "bool", val |-> TRUE], [type |-> "bool", val |-> FALSE],
              [type |-> "int", val |-> TRUE]}

\* The issuer's certificate.
Issuer == Certificate(0)

\* ------------------------------------------------------------------ exceptions
\* Base class of each exception class that fetch() meets.
ExceptionBase(cls) ==
    CASE cls = "HTTPError"           -> "URLError"
      [] cls = "URLError"            -> "OSError"
      [] cls = "socket.error"        -> "OSError"
      [] cls = "OSError"             -> "Exception"
      [] cls = "Exception"           -> "BaseException"
      [] cls = "OCSPValidationError" -> "Exception"
      [] cls = "TypeError"           -> "Exception"
      [] cls = "ValueError"          -> "Exception"
      [] OTHER                       -> "object"

RECURSIVE IsSubclass(_, _)
IsSubclass(cls, base) ==
    IF cls = base THEN TRUE
    ELSE IF cls = "object" THEN FALSE
    ELSE IsSubclass(ExceptionBase(cls), base)

\* isinstance(e, cls) for an exception value
IsInstance(e, cls) == e.type # "NoneType" /\ IsSubclass(e.type, cls)

\* What the transport can raise from session.send (docstring of fetch).
TransportErrors == {"URLError", "HTTPError", "socket.error"}

Error(cls, at, msg) == [type |-> cls, at |-> at, msg |-> msg]

\* ------------------------------------------------------------------ ASN.1 values
\* ocsp.CertId built by fetch() from cert, issuer and hash_algo.
CertId(cert, issuer, hash_algo) ==
    [hash_algorithm   |-> hash_algo,
     issuer_name_hash |-> <<hash_algo, cert.issuer>>,
     issuer_key_hash  |-> <<hash_algo, issuer.public_key>>,
     serial_number    |-> cert.serial_number]

\* _get_ocsp_request_obj(cert_id, use_nonce); rnd is the value of os.urandom(16).
_get_ocsp_request_obj(cert_id, use_nonce, rnd) ==
    [request_list       |-> <<[req_cert |-> cert_id]>>,
     request_extensions |-> IF use_nonce
                            THEN <<[extn_id |-> "nonce", critical |-> FALSE, extn_value |-> rnd]>>
                            ELSE <<>>]

\* OCSPRequest.nonce_value: the value of the nonce extension, None without one.
RequestNonceValue(ocsp_request) ==
    IF \E j \in DOMAIN ocsp_request.request_extensions :
           ocsp_request.request_extensions[j].extn_id = "nonce"
    THEN LET j == CHOOSE j \in DOMAIN ocsp_request.request_extensions :
                      ocsp_request.request_extensions[j].extn_id = "nonce"
         IN ocsp_request.request_extensions[j].extn_value
    ELSE NoNonce

\* OCSPRequest.dump(): the encoded request, field after field; the extensions
\* are part of the encoding, so two requests with different nonces differ.
Dump(ocsp_request) ==
    LET id == ocsp_request.request_list[1].req_cert
    IN <<id.hash_algorithm, id.issuer_name_hash[2], id.issuer_key_hash[2], id.serial_number>>
       \o [j \in DOMAIN ocsp_request.request_extensions |->
               ocsp_request.request_extensions[j].extn_value]

\* The payload a responder sends: which responder, and the echoed nonce.
Content(url, nonce) == <<url, nonce>>

\* ocsp.OCSPResponse.load(response.content)
Load(content) ==
    [responder |-> content[1], nonce_value |-> content[2]]

\* cache_manager.Request(method, url, data=..., headers=...)
Request(method, url, data, headers) ==
    [method |-> method, url |-> url, data |-> data, headers |-> headers]

\* The header dictionary of line 107.
Headers(user_agent) ==
    [Accept |-> "application/ocsp-response", UserAgent |-> user_agent,
     ContentType |-> "application/ocsp-request"]

\* ------------------------------------------------------------------ state
VARIABLES
    client,                 \* the caller: the certificate it asks about, the digest
                            \* algorithm and the user agent it is configured with
    cache,                  \* cache_manager's store: cache key -> response payload
    calls,                  \* fetch() calls started so far
    pc,                     \* "idle", "loop" (at the head of the for loop), "done"
    args,                   \* the arguments of the running call
    user_agent,             \* the resolved User-Agent text
    ocsp_request,           \* the request that goes on the wire
    ocsp_request_no_nonce,  \* the request the cache key is made of
    idx,                    \* position of the for loop in cert.ocsp_urls
    last_e,                 \* the local last_e
    outcome,                \* how the call ended: a returned response or a raised error
    ops,                    \* cache and network operations of the running call, in order
    prev                    \* the last call that returned a response: arguments, endpoint

vars == <<client, cache, calls, pc, args, user_agent, ocsp_request, ocsp_request_no_nonce,
          idx, last_e, outcome, ops, prev>>

NoArgs == [type |-> "none"]
Running == [kind |-> "running"]
Returned(ocsp_response) == [kind |-> "return", value |-> ocsp_response]
Raised(e) == [kind |-> "raise", value |-> e]
NoCall == [kind |-> "none"]

\* ------------------------------------------------------------------ cache_manager
\* The key under which cache_manager files a request.
CacheKey(request) == <<request.method, request.url, request.headers, request.data>>

\* cache_manager.is_request_cached(request)
is_request_cached(store, request) == CacheKey(request) \in DOMAIN store

\* cache_manager.get_from_cache(request): a CachedResponse
get_from_cache(store, request) ==
    [class |-> "CachedResponse", content |-> store[CacheKey(request)]]

\* cache_manager.replace_key(original_request, new_request_key, response):
\* the response goes into the store under the key of new_request_key.
replace_key(store, original_request, new_request_key, response) ==
    [k \in DOMAIN store \cup {CacheKey(new_request_key)} |->
        IF k = CacheKey(new_request_key) THEN response.content ELSE store[k]]

\* What cache_manager.session.send can do for one request: raise one of the
\* transport errors, or deliver a response whose payload the responder chose.
SendOutcomes(request) ==
    { [ok |-> FALSE, error |-> Error(cls, request.url, "send failed")] : cls \in TransportErrors }
    \cup
    { [ok |-> TRUE,
       response |-> [class |-> "Response", content |-> Content(request.url, n)]]
      : n \in {NoNonce} \cup Nonces }

\* One cache or network operation, as it is logged in ops: its name, the
\* endpoint, and the payload it read, received or wrote (<<>> if none: a
\* lookup, or a send that raised).
Op(name, url, content) == [op |-> name, url |-> url, content |-> content]

\* The send that does not happen when the cache answers.
NoSend == [ok |-> FALSE, error |-> None]

\* ------------------------------------------------------------------ _get_response
\* _get_response without the replace_key call of line 41.
_get_response_no_store(store, request, request_cache_key, send) ==
    IF is_request_cached(store, request_cache_key)
    THEN LET response == get_from_cache(store, request_cache_key)
         IN [raised |-> None, response |-> response, store |-> store,
             ops |-> <<Op("lookup", request.url, <<>>),
                       Op("get", request.url, response.content)>>]
    ELSE IF ~send.ok
    THEN [raised |-> send.error, response |-> NoSend, store |-> store,
          ops |-> <<Op("lookup", request.url, <<>>),
                    Op("send", request.url, <<>>)>>]
    ELSE [raised |-> None, response |-> send.response, store |-> store,
          ops |-> <<Op("lookup", request.url, <<>>),
                    Op("send", request.url, send.response.content)>>]

\* _get_response calling replace_key on a cache hit as well.
_get_response_restore(store, request, request_cache_key, send) ==
    IF is_request_cached(store, request_cache_key)
    THEN LET response == get_from_cache(store, request_cache_key)
         IN [raised |-> None, response |-> response,
             store |-> replace_key(store, request, request_cache_key, response),
             ops |-> <<Op("lookup", request.url, <<>>),
                       Op("get", request.url, response.content),
                       Op("store", request.url, response.content)>>]
    ELSE IF ~send.ok
    THEN [raised |-> send.error, response |-> NoSend, store |-> store,
          ops |-> <<Op("lookup", request.url, <<>>),
                    Op("send", request.url, <<>>)>>]
    ELSE [raised |-> None, response |-> send.response,
          store |-> replace_key(store, request, request_cache_key, send.response),
          ops |-> <<Op("lookup", request.url, <<>>),
                    Op("send", request.url, send.response.content),
                    Op("store", request.url, send.response.content)>>]

\* _get_response filing a placeholder under the key when the send raised.
_get_response_store_on_failure(store, request, request_cache_key, send) ==
    IF is_request_cached(store, request_cache_key)
    THEN LET response == get_from_cache(store, request_cache_key)
         IN [raised |-> None, response |-> response, store |-> store,
             ops |-> <<Op("lookup", request.url, <<>>),
                       Op("get", request.url, response.content)>>]
    ELSE IF ~send.ok
    THEN [raised |-> send.error, response |-> NoSend,
          store |-> replace_key(store, request, request_cache_key,
                                [class |-> "Response",
                                 content |-> Content(request.url, NoNonce)]),
          ops |-> <<Op("lookup", request.url, <<>>),
                    Op("send", request.url, <<>>)>>]
    ELSE [raised |-> None, response |-> send.response,
          store |-> replace_key(store, request, request_cache_key, send.response),
          ops |-> <<Op("lookup", request.url, <<>>),
                    Op("send", request.url, send.response.content),
                    Op("store", request.url, send.response.content)>>]

\* _get_response(request, request_cache_key, timeout); send is what the
\* transport does if it is asked.  The result: the exception raised (or None),
\* the response, the store afterwards and the operations performed.
_get_response(store, request, request_cache_key, send) ==
    IF is_request_cached(store, request_cache_key)
    THEN LET response == get_from_cache(store, request_cache_key)
         IN [raised |-> None, response |-> response, store |-> store,
             ops |-> <<Op("lookup", request.url, <<>>),
                       Op("get", request.url, response.content)>>]
    ELSE IF ~send.ok
    THEN [raised |-> send.error, response |-> NoSend, store |-> store,
          ops |-> <<Op("lookup", request.url, <<>>),
                    Op("send", request.url, <<>>)>>]
    ELSE [raised |-> None, response |-> send.response,
          store |-> replace_key(store, request, request_cache_key, send.response),
          ops |-> <<Op("lookup", request.url, <<>>),
                    Op("send", request.url, send.response.content),
                    Op("store", request.url, send.response.content)>>]

\* ------------------------------------------------------------------ fetch
\* Lines 77-92 without the hash_algo check of lines 83-84.
ValidateArgsNoHashAlgo(cert, issuer, hash_algo, nonce, ua) ==
    IF cert.type # "Certificate"
    THEN Error("TypeError", 0, "cert must be an instance of asn1crypto.x509.Certificate")
    ELSE IF issuer.type # "Certificate"
    THEN Error("TypeError", 0, "issuer must be an instance of asn1crypto.x509.Certificate")
    ELSE IF nonce.type # "bool"
    THEN Error("TypeError", 0, "nonce must be a bool")
    ELSE IF ua # None /\ ua.type # "str"
    THEN Error("TypeError", 0, "user_agent must be a unicode string")
    ELSE None

\* The checks of lines 77-92, in order: the error raised, or None.
ValidateArgs(cert, issuer, hash_algo, nonce, ua) ==
    IF cert.type # "Certificate"
    THEN Error("TypeError", 0, "cert must be an instance of asn1crypto.x509.Certificate")
    ELSE IF issuer.type # "Certificate"
    THEN Error("TypeError", 0, "issuer must be an instance of asn1crypto.x509.Certificate")
    ELSE IF hash_algo \notin {"sha1", "sha256"}
    THEN Error("ValueError", 0, "hash_algo must be one of sha1, sha256")
    ELSE IF nonce.type # "bool"
    THEN Error("TypeError", 0, "nonce must be a bool")
    ELSE IF ua # None /\ ua.type # "str"
    THEN Error("TypeError", 0, "user_agent must be a unicode string")
    ELSE None

\* Lines 89-90: the User-Agent text.
ResolveUserAgent(ua) == IF ua = None THEN "certvalidator version" ELSE ua.val

\* Line 115 with == for !=.
NonceMismatchEqual(response, request_nonce, response_nonce) ==
    /\ response.class # "CachedResponse"
    /\ request_nonce # NoNonce
    /\ response_nonce # NoNonce
    /\ request_nonce = response_nonce

\* Line 115 without the isinstance test that exempts cached responses.
NonceMismatchNoExemption(response, request_nonce, response_nonce) ==
    /\ request_nonce # NoNonce
    /\ response_nonce # NoNonce
    /\ request_nonce # response_nonce

\* Line 115 without the two presence tests.
NonceMismatchNoPresence(response, request_nonce, response_nonce) ==
    /\ response.class # "CachedResponse"
    /\ request_nonce # response_nonce

\* The condition of line 115.
NonceMismatch(response, request_nonce, response_nonce) ==
    /\ response.class # "CachedResponse"
    /\ request_nonce # NoNonce
    /\ response_nonce # NoNonce
    /\ request_nonce # response_nonce

\* Line 121 as "except Exception".
ExceptClauseBroad(e) == IsInstance(e, "Exception")

\* Line 121 catching URLError itself but none of its subclasses.
ExceptClauseExact(e) == e.type = "URLError"

\* The except clause of line 121: does it catch e?
ExceptClause(e) == IsInstance(e, "URLError")

\* Line 108 building the key from the request that goes on the wire.
KeyRequestWire(with_nonce, no_nonce) == with_nonce

\* The request whose encoding makes the cache key of line 108.
KeyRequest(with_nonce, no_nonce) == no_nonce

\* Line 122 keeping the first error instead of the latest.
RememberFirst(old, e) == IF old = None THEN e ELSE old

\* Line 122: the value of last_e after the handler caught e.
Remember(old, e) == e

\* The for loop of line 105 stepping over an endpoint.
NextIndexSkip(i) == i + 2

\* The for loop of line 105: the position after position i.
NextIndex(i) == i + 1

\* "raise x": x itself if it is an exception, else the interpreter's TypeError.
RaiseStmt(x) ==
    IF IsInstance(x, "BaseException") THEN x
    ELSE Error("TypeError", 0, "exceptions must derive from BaseException")

\* fetch(cert, issuer, hash_algo, nonce, user_agent): lines 77-104.
Fetch(cert, issuer, hash_algo, nonce, ua, rnd) ==
    /\ pc = "idle"
    /\ calls < MaxCalls
    /\ calls' = calls + 1
    /\ args' = [cert |-> cert, issuer |-> issuer, hash_algo |-> hash_algo,
                nonce |-> nonce, user_agent |-> ua]
    /\ ops' = <<>>
    /\ last_e' = None
    /\ idx' = 1
    /\ LET err == ValidateArgs(cert, issuer, hash_algo, nonce, ua)
       IN IF err # None
          THEN /\ pc' = "done"
               /\ outcome' = Raised(err)
               /\ user_agent' = ""
               /\ ocsp_request' = NoArgs
               /\ ocsp_request_no_nonce' = NoArgs
          ELSE LET cert_id == CertId(cert, issuer, hash_algo)
                   no_nonce == _get_ocsp_request_obj(cert_id, FALSE, rnd)
               IN /\ pc' = "loop"
                  /\ outcome' = Running
                  /\ user_agent' = ResolveUserAgent(ua)
                  /\ ocsp_request_no_nonce' = no_nonce
                  /\ ocsp_request' = IF nonce.val
                                     THEN _get_ocsp_request_obj(cert_id, TRUE, rnd)
                                     ELSE no_nonce
    /\ UNCHANGED <<client, cache, prev>>

\* One pass of the for loop: lines 105-122.
LoopBody ==
    /\ pc = "loop"
    /\ idx <= Len(args.cert.ocsp_urls)
    /\ LET ocsp_url == args.cert.ocsp_urls[idx]
           headers == Headers(user_agent)
           request_no_nonce ==
               Request("POST", ocsp_url,
                       Dump(KeyRequest(ocsp_request, ocsp_request_no_nonce)), headers)
           request == Request("POST", ocsp_url, Dump(ocsp_request), headers)
       IN \E send \in (IF is_request_cached(cache, request_no_nonce)
                       THEN {NoSend} ELSE SendOutcomes(request)) :
            LET r == _get_response(cache, request, request_no_nonce, send)
                ocsp_response == Load(r.response.content)
                request_nonce == RequestNonceValue(ocsp_request)
                e == IF r.raised # None THEN r.raised
                     ELSE IF NonceMismatch(r.response, request_nonce,
                                           ocsp_response.nonce_value)
                     THEN Error("OCSPValidationError", ocsp_url,
                                "request and response nonces do not match")
                     ELSE None
            IN /\ cache' = r.store
               /\ ops' = ops \o r.ops
               /\ IF e = None
                  THEN /\ outcome' = Returned(ocsp_response)
                       /\ pc' = "done"
                       /\ UNCHANGED <<idx, last_e>>
                  ELSE IF ExceptClause(e)
                  THEN /\ last_e' = Remember(last_e, e)
                       /\ idx' = NextIndex(idx)
                       /\ UNCHANGED <<outcome, pc>>
                  ELSE /\ outcome' = Raised(e)
                       /\ pc' = "done"
                       /\ UNCHANGED <<idx, last_e>>
    /\ UNCHANGED <<client, calls, args, user_agent, ocsp_request, ocsp_request_no_nonce, prev>>

\* The loop is exhausted: line 124.
LoopExit ==
    /\ pc = "loop"
    /\ idx > Len(args.cert.ocsp_urls)
    /\ outcome' = Raised(RaiseStmt(last_e))
    /\ pc' = "done"
    /\ UNCHANGED <<client, cache, calls, args, user_agent, ocsp_request, ocsp_request_no_nonce,
                   idx, last_e, ops, prev>>

\* The caller has the result; the next call may start.
Finish ==
    /\ pc = "done"
    /\ pc' = "idle"
    /\ prev' = IF outcome.kind = "return"
               THEN [kind |-> "call", args |-> args, idx |-> idx]
               ELSE prev
    /\ args' = NoArgs
    /\ user_agent' = ""
    /\ ocsp_request' = NoArgs
    /\ ocsp_request_no_nonce' = NoArgs
    /\ idx' = 1
    /\ last_e' = None
    /\ outcome' = Running
    /\ ops' = <<>>
    /\ UNCHANGED <<client, cache, calls>>

Init ==
    /\ client \in [cert : Certs, hash_algo : {"sha1", "sha256"},
                    user_agent : {None, [type |-> "str", val |-> "agent"]}]
    /\ cache = <<>>
    /\ calls = 0
    /\ pc = "idle"
    /\ args = NoArgs
    /\ user_agent = ""
    /\ ocsp_request = NoArgs
    /\ ocsp_request_no_nonce = NoArgs
    /\ idx = 1
    /\ last_e = None
    /\ outcome = Running
    /\ ops = <<>>
    /\ prev = NoCall

Call ==
    \E cert \in {client.cert, NotACert}, issuer \in {Issuer, NotACert},
       hash_algo \in {client.hash_algo, "md5"}, nonce \in NonceArgs,
       ua \in {client.user_agent, [type |-> "bytes", val |-> "agent"]}, rnd \in Nonces :
        Fetch(cert, issuer, hash_algo, nonce, ua, rnd)

Next == Call \/ LoopBody \/ LoopExit \/ Finish

Spec == Init /\ [][Next]_vars

\* A call whose arguments pass the checks of lines 77-92: the calls that
\* enter the loop (a rejected call ends in the step that starts it).
AcceptedCall ==
    \E nonce \in {[type |-> "bool", val |-> TRUE], [type |-> "bool", val |-> FALSE]},
       rnd \in Nonces :
        Fetch(client.cert, Issuer, client.hash_algo, nonce, client.user_agent, rnd)

NextAccepted == AcceptedCall \/ LoopBody \/ LoopExit \/ Finish

\* The calls that enter the loop, run to their end: every cache and network
\* operation returns or raises, so a pass of the loop and the final raise do
\* happen once they can.
FairSpec == Init /\ [][NextAccepted]_vars /\ WF_vars(LoopBody) /\ WF_vars(LoopExit)

\* ------------------------------------------------------------------ reading a call
\* The running (or finished) call got past the argument checks.
Started == ocsp_request # NoArgs

Urls == args.cert.ocsp_urls

\* Position of an endpoint in cert.ocsp_urls.
UrlIndex(u) == CHOOSE j \in DOMAIN Urls : Urls[j] = u

UseNonce == args.nonce.val

\* The nonce the call sent (NoNonce without the extension).
SentNonce == RequestNonceValue(ocsp_request)

LastOp == ops[Len(ops)]

\* ops[j] is a network exchange that raised.
SendFailedAt(j) == ops[j].op = "send" /\ ops[j].content = <<>>

\* ops[j] is a network exchange that delivered a response.
FreshAt(j) == ops[j].op = "send" /\ ops[j].content # <<>>

\* ops[j] is a read of the cache.
CachedAt(j) == ops[j].op = "get"

\* ops[j] delivered a fresh response whose nonce differs from the one sent.
FreshMismatchAt(j) ==
    /\ FreshAt(j)
    /\ SentNonce # NoNonce
    /\ Load(ops[j].content).nonce_value # NoNonce
    /\ Load(ops[j].content).nonce_value # SentNonce

\* ops[j] yielded a valid response: a cached one, or a fresh one that passes.
ValidAt(j) == CachedAt(j) \/ (FreshAt(j) /\ ~FreshMismatchAt(j))

RaisedClass(cls) == outcome.kind = "raise" /\ outcome.value.type = cls

\* ------------------------------------------------------------------ claims

\* C1: with nonce=True, a call that received over the network a response whose
\* nonce differs from the nonce it sent ends by raising OCSPValidationError;
\* it does not return that response.
C1_FreshMismatchRaises ==
    (pc = "done" /\ Started /\ UseNonce) =>
        \A j \in DOMAIN ops :
            FreshMismatchAt(j) =>
                /\ RaisedClass("OCSPValidationError")
                /\ outcome # Returned(Load(ops[j].content))

C1_Witness ==
    /\ pc = "done" /\ Started /\ UseNonce
    /\ \E j \in DOMAIN ops : FreshMismatchAt(j) /\ Load(ops[j].content).nonce_value = 2
    /\ SentNonce = 1

\* C2 as claimed: after a nonce mismatch on a fresh response the error is
\* remembered in last_e and the loop goes on to the next endpoint (a later
\* cache lookup follows, or the loop stands right behind that endpoint).
C2_MismatchFallsBack ==
    Started =>
        \A j \in DOMAIN ops :
            FreshMismatchAt(j) =>
                \/ \E m \in DOMAIN ops : m > j /\ ops[m].op = "lookup"
                \/ /\ last_e.type = "OCSPValidationError"
                   /\ last_e.at = ops[j].url
                   /\ idx = UrlIndex(ops[j].url) + 1

\* C2 amended: a nonce mismatch on a fresh response ends the call at once:
\* the OCSPValidationError is not caught by the handler, so it is not
\* remembered in last_e, no later endpoint is touched, and the error reaches
\* the caller whatever endpoints remain.
C2_MismatchAborts ==
    Started =>
        \A j \in DOMAIN ops :
            FreshMismatchAt(j) =>
                /\ pc = "done"
                /\ outcome = Raised(Error("OCSPValidationError", ops[j].url,
                                          "request and response nonces do not match"))
                /\ \A m \in DOMAIN ops : m > j => (m = j + 1 /\ ops[m].op = "store")
                /\ idx = UrlIndex(ops[j].url)
                /\ last_e.type # "OCSPValidationError"

C2_Witness ==
    /\ pc = "done" /\ Started
    /\ \E j \in DOMAIN ops : FreshMismatchAt(j)
    /\ idx = 2 /\ idx < Len(Urls)
    /\ RaisedClass("OCSPValidationError")

\* C3: with nonce=True, a call that read a response from the cache returns
\* that response, whatever nonce the cached response carries.
C3_CachedSkipsNonceCheck ==
    (pc = "done" /\ Started /\ UseNonce) =>
        \A j \in DOMAIN ops :
            CachedAt(j) => outcome = Returned(Load(ops[j].content))

C3_Witness ==
    /\ pc = "done" /\ Started /\ UseNonce
    /\ \E j \in DOMAIN ops :
          /\ CachedAt(j)
          /\ Load(ops[j].content).nonce_value \notin {NoNonce, SentNonce}
    /\ outcome.kind = "return"

C5_RaisesLastError ==
    (pc = "done" /\ Started /\ Len(Urls) > 0 /\ outcome.kind = "raise") =>
        /\ outcome.value.at = LastOp.url
        /\ outcome.value.type # "TypeError"
        /\ idx > Len(Urls) =>
              /\ outcome.value = last_e
              /\ last_e.at = Urls[Len(Urls)]
              /\ last_e.msg = "send failed"
              /\ \A j \in DOMAIN ops : ops[j].op = "lookup" \/ SendFailedAt(j)

C5_Witness ==
    /\ pc = "done" /\ Started
    /\ Len(Urls) = 3 /\ idx > Len(Urls)
    /\ outcome.kind = "raise" /\ outcome.value.at = Urls[3]

\* C6 as claimed: whatever a network exchange raised, the error is remembered
\* and the loop goes on: while untried endpoints remain, a failed exchange is
\* never the last thing the call did.
C6_AnyTransportErrorContinues ==
    Started =>
        \A j \in DOMAIN ops :
            (SendFailedAt(j) /\ UrlIndex(ops[j].url) < Len(Urls)) =>
                \/ j < Len(ops)
                \/ /\ pc = "loop"
                   /\ idx = UrlIndex(ops[j].url) + 1
                   /\ last_e.at = ops[j].url

\* C6 amended: a network exchange that raised a URLError (HTTPError included)
\* is remembered in last_e and the loop goes on to the next endpoint; one that
\* raised a socket.error is not caught and ends the call with that error, as
\* the docstring of fetch says, even while untried endpoints remain.
C6_URLErrorContinues ==
    (Started /\ ops # <<>> /\ SendFailedAt(Len(ops))) =>
        \/ /\ pc = "loop"
           /\ idx = UrlIndex(LastOp.url) + 1
           /\ last_e \in {Error("URLError", LastOp.url, "send failed"),
                          Error("HTTPError", LastOp.url, "send failed")}
        \/ /\ pc = "done"
           /\ idx = UrlIndex(LastOp.url)
           /\ outcome = Raised(Error("socket.error", LastOp.url, "send failed"))
        \/ /\ pc = "done"
           /\ idx = Len(Urls) + 1
           /\ LastOp.url = Urls[Len(Urls)]
           /\ last_e \in {Error("URLError", LastOp.url, "send failed"),
                          Error("HTTPError", LastOp.url, "send failed")}
           /\ outcome = Raised(last_e)

C6_Witness ==
    /\ pc = "loop" /\ Started
    /\ idx = 2 /\ idx <= Len(Urls)
    /\ ops # <<>> /\ SendFailedAt(Len(ops))
    /\ last_e.type = "HTTPError"

\* C7 as claimed: a call for a certificate without endpoints performs no cache
\* or network operation and ends by raising an error value of its own; what
\* it hands to the raise statement is an exception, not the unset last_e.
C7_ZeroEndpointsDefinedError ==
    (pc = "done" /\ Started /\ Len(Urls) = 0) =>
        /\ outcome.kind = "raise"
        /\ ops = <<>>
        /\ IsInstance(last_e, "BaseException")
        /\ outcome.value = last_e

\* The arguments of the call break a precondition of fetch.
BadArgs(a) ==
    \/ a.cert.type # "Certificate"
    \/ a.issuer.type # "Certificate"
    \/ a.hash_algo \notin {"sha1", "sha256"}
    \/ a.nonce.type # "bool"
    \/ a.user_agent.type \notin {"NoneType", "str"}

\* C8: a call whose arguments break a precondition ends, in the step that
\* starts it, with a TypeError or ValueError; it performs no cache or network
\* operation and leaves the cache as it was.
C8_BadArgsRejectedBeforeIO ==
    [][(pc = "idle" /\ pc' # "idle" /\ BadArgs(args')) =>
          /\ pc' = "done"
          /\ outcome'.kind = "raise"
          /\ outcome'.value.type \in {"TypeError", "ValueError"}
          /\ ops' = <<>>
          /\ cache' = cache]_vars

C8_Witness ==
    /\ pc = "done"
    /\ args.cert.type = "Certificate" /\ args.issuer.type = "Certificate"
    /\ args.hash_algo = "md5"
    /\ RaisedClass("ValueError")
    /\ ops = <<>>
    /\ cache # <<>>

\* Endpoints for which the cache holds a response.
StoredUrls == { k[2] : k \in DOMAIN cache }

\* C9: the cache key does not depend on the nonce: once the cache holds a
\* response for an endpoint, stored by a call with any nonce, a later call of
\* the same caller finds it, with nonce=False or with another nonce: a call
\* never sends to an endpoint that has an entry, except in the exchange whose
\* response it stores itself right away.
C9_KeyIgnoresNonce ==
    Started =>
        /\ \A j \in DOMAIN ops :
              (ops[j].op = "send" /\ ops[j].url \in StoredUrls) =>
                  /\ j < Len(ops)
                  /\ ops[j + 1] = Op("store", ops[j].url, ops[j].content)
        /\ \A k \in DOMAIN cache :
              k = CacheKey(Request("POST", k[2], Dump(ocsp_request_no_nonce),
                                   Headers(user_agent)))

C9_Witness ==
    /\ pc = "done" /\ Started
    /\ prev.kind = "call" /\ prev.args.nonce.val
    /\ ~UseNonce
    /\ \E j \in DOMAIN ops :
          /\ CachedAt(j)
          /\ Load(ops[j].content).nonce_value # NoNonce
          /\ ops[j].url = Urls[prev.idx]

\* C10 as claimed: a call that repeats the arguments of a call that returned
\* a response returns a cached response and performs no network exchange.
C10_RepeatNeverSends ==
    (pc = "done" /\ Started /\ prev.kind = "call" /\ prev.args = args) =>
        /\ outcome.kind = "return"
        /\ \A j \in DOMAIN ops : ops[j].op # "send"

\* C10 amended: a call that repeats the arguments of a call that returned a
\* response never sends to the endpoint that answered that call, and returns
\* the cached response if it gets to that endpoint; it performs no network
\* exchange at all when that endpoint is the first of the list.  Endpoints
\* that failed before the answering one are contacted again.
C10_RepeatReusesAnsweringEndpoint ==
    (pc = "done" /\ Started /\ prev.kind = "call" /\ prev.args = args) =>
        /\ \A j \in DOMAIN ops : ops[j].op = "send" => UrlIndex(ops[j].url) < prev.idx
        /\ idx <= prev.idx
        /\ idx = prev.idx =>
              /\ CachedAt(Len(ops))
              /\ LastOp.url = Urls[prev.idx]
              /\ outcome = Returned(Load(LastOp.content))
        /\ prev.idx = 1 =>
              ops = <<Op("lookup", Urls[1], <<>>), Op("get", Urls[1], LastOp.content)>>

C10_Witness ==
    /\ pc = "done" /\ Started /\ prev.kind = "call" /\ prev.args = args
    /\ prev.idx = 1 /\ Len(Urls) = 3
    /\ outcome.kind = "return"
    /\ \A j \in DOMAIN ops : ops[j].op # "send"

\* The nonce-free key of an endpoint for the running call.
KeyOf(u) ==
    CacheKey(Request("POST", u, Dump(ocsp_request_no_nonce), Headers(user_agent)))

\* C11 as claimed: the cache holds no response whose nonce mismatched the
\* nonce of the request that fetched it, so nothing that failed the nonce
\* check can be served from the cache later.
C11_CacheHoldsOnlyVerified ==
    Started =>
        \A j \in DOMAIN ops :
            FreshMismatchAt(j) =>
                ~(KeyOf(ops[j].url) \in DOMAIN cache
                  /\ cache[KeyOf(ops[j].url)] = ops[j].content)

\* C12: a fresh response is stored under the nonce-free key of its endpoint
\* right after it is received, before the nonce comparison: every delivered
\* exchange is followed by its store, and a call that ended with the
\* nonce-mismatch OCSPValidationError leaves the mismatching response in the
\* cache under that key.
C12_StoredBeforeNonceCheck ==
    Started =>
        /\ \A j \in DOMAIN ops :
              FreshAt(j) =>
                  /\ j < Len(ops)
                  /\ ops[j + 1] = Op("store", ops[j].url, ops[j].content)
                  /\ KeyOf(ops[j].url) \in DOMAIN cache
                  /\ cache[KeyOf(ops[j].url)] = ops[j].content
        /\ (pc = "done" /\ RaisedClass("OCSPValidationError")) =>
              /\ Len(ops) >= 2
              /\ FreshMismatchAt(Len(ops) - 1)
              /\ LastOp.op = "store"
              /\ cache[KeyOf(LastOp.url)] = LastOp.content

C12_Witness ==
    /\ pc = "done" /\ Started
    /\ RaisedClass("OCSPValidationError")
    /\ LastOp.op = "store"
    /\ KeyOf(LastOp.url) \in DOMAIN cache
    /\ Load(cache[KeyOf(LastOp.url)]).nonce_value \notin {NoNonce, SentNonce}

\* C13: a cache hit ends the call in the same pass: the cached response is
\* returned, the hit is the last operation of the call (no exchange and no
\* store for that endpoint, no later endpoint touched), and it follows the
\* lookup of that endpoint directly.
C13_HitReturnsImmediately ==
    Started =>
        \A j \in DOMAIN ops :
            CachedAt(j) =>
                /\ pc = "done"
                /\ outcome = Returned(Load(ops[j].content))
                /\ j = Len(ops)
                /\ j > 1 /\ ops[j - 1] = Op("lookup", ops[j].url, <<>>)
                /\ \A m \in DOMAIN ops :
                      ops[m].url = ops[j].url => ops[m].op \in {"lookup", "get"}
                /\ ops[j].content = cache[KeyOf(ops[j].url)]

C13_Witness ==
    /\ pc = "done" /\ Started
    /\ Len(Urls) = 3
    /\ CachedAt(Len(ops)) /\ LastOp.url = Urls[2]
    /\ outcome.kind = "return"

\* C14: within one call the endpoints are taken in the order of
\* cert.ocsp_urls: the n-th cache lookup of the call is for the n-th endpoint,
\* every other operation belongs to the endpoint looked up just before it,
\* a lookup after the first follows a network exchange that raised, and no
\* endpoint is sent to twice.
C14_InOrderOncePerEndpoint ==
    Started =>
        /\ \A j \in DOMAIN ops :
              IF ops[j].op = "lookup"
              THEN /\ UrlIndex(ops[j].url) =
                         Cardinality({m \in 1 .. j : ops[m].op = "lookup"})
                   /\ j > 1 => SendFailedAt(j - 1)
              ELSE j > 1 /\ ops[j].url = ops[j - 1].url
        /\ \A j, m \in DOMAIN ops :
              (ops[j].op = "send" /\ ops[m].op = "send" /\ ops[j].url = ops[m].url) => j = m
        /\ pc = "loop" => Cardinality({m \in DOMAIN ops : ops[m].op = "lookup"}) = idx - 1

C14_Witness ==
    /\ pc = "done" /\ Started
    /\ Len(Urls) = 3
    /\ Cardinality({m \in DOMAIN ops : ops[m].op = "send"}) = 3
    /\ ops[1].url = Urls[1] /\ LastOp.url = Urls[3]

\* C15: a finished call has raised OCSPValidationError exactly if it received
\* a fresh response while both the request and the response carried a nonce
\* and the two differ.  A call with nonce=False sends the nonce-free request
\* itself and never raises OCSPValidationError; a fresh response without a
\* nonce is returned, also with nonce=True; so is one answering a request
\* without a nonce.
C15_AbsentNonceTolerated ==
    (pc = "done" /\ Started) =>
        /\ RaisedClass("OCSPValidationError") <=>
              \E j \in DOMAIN ops :
                  /\ ops[j].op = "send" /\ ops[j].content # <<>>
                  /\ SentNonce # NoNonce
                  /\ ops[j].content[2] # NoNonce
                  /\ ops[j].content[2] # SentNonce
        /\ ~UseNonce =>
              /\ ocsp_request = ocsp_request_no_nonce
              /\ SentNonce = NoNonce
              /\ ~RaisedClass("OCSPValidationError")
        /\ UseNonce => SentNonce \in Nonces
        /\ \A j \in DOMAIN ops :
              (FreshAt(j) /\ (ops[j].content[2] = NoNonce \/ SentNonce = NoNonce)) =>
                  outcome = Returned(Load(ops[j].content))

C15_Witness ==
    /\ pc = "done" /\ Started /\ UseNonce
    /\ \E j \in DOMAIN ops : FreshAt(j) /\ ops[j].content[2] = NoNonce
    /\ outcome.kind = "return"
    /\ outcome.value.nonce_value = NoNonce

\* How a finished call ended.
Success ==
    /\ outcome.kind = "return"
    /\ idx <= Len(Urls)
    /\ \E j \in DOMAIN ops : ValidAt(j) /\ ops[j].url = Urls[idx]

ExhaustedFailure ==
    /\ outcome.kind = "raise"
    /\ idx = Len(Urls) + 1
    /\ Cardinality({m \in DOMAIN ops : ops[m].op = "lookup"}) = Len(Urls)
    /\ \A j \in DOMAIN ops : ops[j].op = "lookup" \/ SendFailedAt(j)

Aborted ==
    /\ outcome.kind = "raise"
    /\ idx <= Len(Urls)
    /\ outcome.value.type \in {"socket.error", "OCSPValidationError"}
    /\ outcome.value.at = Urls[idx]

\* C16 as claimed: every failure of an endpoint advances the loop, so a
\* finished call is in Success or in ExhaustedFailure.
C16_SuccessOrExhausted ==
    (pc = "done" /\ Started) => (Success \/ ExhaustedFailure)

\* C16 amended: every call terminates.  A URLError advances the loop to the
\* next endpoint; an OCSPValidationError or a socket.error ends the call at
\* once with that error.  The call reaches exactly one of Success,
\* ExhaustedFailure or Aborted, after at most one lookup and one exchange per
\* endpoint; no call stays in the loop for ever (the loop is left only by
\* ending the call).
C16_Terminates ==
    /\ [](Started =>
            /\ \A u \in 1 .. Len(Urls) :
                  /\ Cardinality({m \in DOMAIN ops : ops[m].op = "lookup" /\ ops[m].url = Urls[u]}) <= 1
                  /\ Cardinality({m \in DOMAIN ops : ops[m].op = "send" /\ ops[m].url = Urls[u]}) <= 1
            /\ pc = "loop" => idx \in 1 .. Len(Urls) + 1)
    /\ []((pc = "done" /\ Started) =>
            /\ Success \/ ExhaustedFailure \/ Aborted
            /\ ~(Success /\ ExhaustedFailure)
            /\ ~(Success /\ Aborted)
            /\ ~(ExhaustedFailure /\ Aborted))
    /\ []<>(pc # "loop")

C16_Witness ==
    /\ pc = "done" /\ Started
    /\ Len(Urls) = 3 /\ idx = 2
    /\ Aborted /\ RaisedClass("socket.error")

\* C17: no step removes or changes an entry of the cache; a step adds at most
\* one entry, and only a pass of the loop whose network exchange for that key
\* delivered the response that is stored; a pass whose exchange raised
\* leaves the cache as it was.
C17_CacheGrowsOnlyOnDelivery ==
    [][/\ \A k \in DOMAIN cache : k \in DOMAIN cache' /\ cache'[k] = cache[k]
       /\ \A k \in DOMAIN cache' \ DOMAIN cache :
             /\ pc = "loop"
             /\ Len(ops') = Len(ops) + 3
             /\ ops'[Len(ops') - 1].op = "send"
             /\ ops'[Len(ops') - 1].content = cache'[k]
             /\ ops'[Len(ops')].op = "store"
             /\ k[2] = ops'[Len(ops')].url
             /\ k[2] = Urls[idx]
       /\ (pc = "loop" /\ Len(ops') > Len(ops)
              /\ ops'[Len(ops')].op = "send" /\ ops'[Len(ops')].content = <<>>) =>
             cache' = cache
       /\ Cardinality(DOMAIN cache' \ DOMAIN cache) <= 1]_vars

C17_Witness ==
    /\ pc = "loop" /\ Started
    /\ cache # <<>>
    /\ ops # <<>> /\ SendFailedAt(Len(ops))
    /\ LastOp.url \notin StoredUrls
    /\ calls = 2

====
